---- MODULE Spec2Model ----
(***************************************************************************)
(* The flow execution engine of the AI Agent Flowchart application:        *)
(* handleProcessFlow of src/App.tsx, the React state it reads and writes,  *)
(* and the agent invocation it awaits (processAgentTask).                  *)
(*                                                                         *)
(* A JavaScript handler runs to completion between two awaits, so every    *)
(* action below is one synchronous segment of the handler: from the call   *)
(* to the first await, and from the settling of an awaited promise to the  *)
(* next await or to the handler's return.                                  *)
(*                                                                         *)
(* Texts (the question, the payload, keywords, role texts, messages) are   *)
(* tuples of one-character strings, so that trim, toLowerCase, includes    *)
(* and substring are computed as JavaScript computes them.  An optional    *)
(* value is <<>> when it is null or undefined and <<v>> when it is v.      *)
(* Node coordinates, grounding metadata and timestamps are presentation    *)
(* data that no step of the traversal reads; they are left out.            *)
(***************************************************************************)
EXTENDS Integers, Sequences, FiniteSets, TLC

VARIABLES
    nodes,                    \* useState<AgentNode[]>
    edges,                    \* useState<AgentEdge[]>
    initialQuestion,          \* useState<string>
    processingLog,            \* useState<ProcessLogEntry[]>
    finalOutput,              \* useState<string | null>
    isProcessing,             \* useState<boolean>
    processingError,          \* useState<string | null>
    currentProcessingNodeId,  \* useState<string | null>
    nodeErrors,               \* useState<Record<string, boolean>>: the marked ids
    pc,                       \* where handleProcessFlow stands
    runNodes,                 \* the nodes array the running handler closed over
    runEdges,                 \* the edges array the running handler closed over
    currentNode,              \* let currentNode (<<>> when undefined)
    currentInput,             \* let currentInput
    visitedNodes,             \* const visitedNodes, in insertion order
    i,                        \* the loop counter
    path,                     \* the nodes currentNode has been, in order
    followedEdges,            \* the edges nextEdgeToFollow has been at line 352
    invocations,              \* the calls of processAgentTask made so far
    responses,                \* how each of them settled
    emitted,                  \* the entries addLog appended in this call
    selectedNodeId,           \* useState<string | null>
    connectingFromNodeId,     \* useState<string | null>
    nextId,                   \* the id the next crypto.randomUUID() returns
    edits,                    \* the editor operations made while a run is suspended
    runs,                     \* the calls of handleProcessFlow made so far
    previousRun               \* what the call before this one left (<<>> when none)

vars == <<nodes, edges, initialQuestion, processingLog, finalOutput, isProcessing,
          processingError, currentProcessingNodeId, nodeErrors, pc, runNodes,
          runEdges, currentNode, currentInput, visitedNodes, i, path,
          followedEdges, invocations, responses, emitted, selectedNodeId,
          connectingFromNodeId, nextId, edits, runs, previousRun>>

editorVars == <<selectedNodeId, connectingFromNodeId, nextId, edits>>

historyVars == <<runs, previousRun>>

-----------------------------------------------------------------------------
(* Bounds of the model *)

MaxNodes == 3
MaxEdges == 3
MaxRuns == 2
MaxAgents == 2
MaxEdits == 1
MaxOps == 7
MaxFairNodes == 2
MaxFairEdges == 2

(* Program constants *)

LoopSlack == 10
LogPrefixLen == 50

-----------------------------------------------------------------------------
(* Values *)

START == "START"
AGENT == "AGENT"
END == "END"
CONDITIONAL_AGENT == "CONDITIONAL_AGENT"

NodeType == {START, AGENT, END, CONDITIONAL_AGENT}

Null == <<>>
Some(v) == <<v>>
NoNode == 0

-----------------------------------------------------------------------------
(* String functions *)

IsWhiteSpace(c) == c = " "

RECURSIVE TrimStart(_)
TrimStart(s) ==
    IF s # <<>> /\ IsWhiteSpace(Head(s)) THEN TrimStart(Tail(s)) ELSE s

RECURSIVE TrimEnd(_)
TrimEnd(s) ==
    IF s # <<>> /\ IsWhiteSpace(s[Len(s)])
    THEN TrimEnd(SubSeq(s, 1, Len(s) - 1))
    ELSE s

Trim(s) == TrimEnd(TrimStart(s))

LowerChar(c) ==
    CASE c = "Y" -> "y"
      [] c = "N" -> "n"
      [] OTHER -> c

ToLowerCase(s) == [k \in 1..Len(s) |-> LowerChar(s[k])]

Includes(s, t) ==
    \E k \in 1..(Len(s) - Len(t) + 1) : SubSeq(s, k, k + Len(t) - 1) = t

Substring(s, from, to) ==
    SubSeq(s, from + 1, IF to < Len(s) THEN to ELSE Len(s))

-----------------------------------------------------------------------------
(* Array functions *)

(* Each takes the array and the set of the positions whose element passes  *)
(* the callback's test.                                                     *)

FirstPosition(positions) == CHOOSE k \in positions : \A j \in positions : k <= j

(* array.find(test): the first element that passes, or undefined. *)
Find(seq, positions) ==
    IF positions = {} THEN Null ELSE Some(seq[FirstPosition(positions)])

(* array.filter(test): the elements that pass, in the array's order. *)
RECURSIVE Filter(_, _)
Filter(seq, positions) ==
    IF seq = <<>> THEN <<>>
    ELSE Filter(SubSeq(seq, 1, Len(seq) - 1), positions)
             \o (IF Len(seq) \in positions THEN <<seq[Len(seq)]>> ELSE <<>>)

-----------------------------------------------------------------------------
(* The processing log *)

LogEntry(message, status, nodeId) ==
    [message |-> message, status |-> status, nodeId |-> nodeId]

(* Variant: the entry appended to the entries this call has written, not to *)
(* the log as it is.                                                         *)
addLog_OwnEntries(s, message, status, nodeId) ==
    [s EXCEPT !.processingLog = Append(s.emitted, LogEntry(message, status, nodeId)),
              !.emitted = Append(@, LogEntry(message, status, nodeId))]

(* setProcessingLog(prev => [...prev, {timestamp, message, status, nodeId}]) *)
addLog(s, message, status, nodeId) ==
    [s EXCEPT !.processingLog = Append(@, LogEntry(message, status, nodeId)),
              !.emitted = Append(@, LogEntry(message, status, nodeId))]

IdText(id) == <<ToString(id)>>

MsgEmptyQuestion == <<"Initial question cannot be empty.">>
MsgStarting(q) == <<"Starting flow with question: \"">> \o q \o <<"\"">>
MsgNoStart == <<"START node not found.">>
MsgCycle(id) == <<"Cycle detected at node ">> \o IdText(id) \o <<". Halting.">>
MsgReachedEnd == <<"Reached END node. Final output set.">>
MsgAgentOutput(type, text) ==
    <<type, ": \"">> \o Substring(text, 0, LogPrefixLen) \o <<"...\"">>
MsgNoMatch == <<"Conditional output did not match any path keywords. Halting.">>
MsgAgentError(description, errMessage) ==
    <<"Error processing agent '">> \o description \o <<"': ">> \o errMessage
MsgNoOutgoing(description) ==
    <<"Node '">> \o description \o <<"' has no outgoing connection. Flow halted.">>
MsgTargetNotFound == <<"Target node not found. Flow corrupted.">>

-----------------------------------------------------------------------------
(* handleProcessFlow.  The operators below work on a record s that holds    *)
(* the React state the handler writes and the handler's own locals; an      *)
(* action reads the record from the variables and writes the result back.   *)

State ==
    [nodes |-> nodes, processingLog |-> processingLog, finalOutput |-> finalOutput,
     isProcessing |-> isProcessing, processingError |-> processingError,
     currentProcessingNodeId |-> currentProcessingNodeId,
     nodeErrors |-> nodeErrors, pc |-> pc, runNodes |-> runNodes,
     runEdges |-> runEdges, currentNode |-> currentNode,
     currentInput |-> currentInput, visitedNodes |-> visitedNodes, i |-> i,
     path |-> path, followedEdges |-> followedEdges, invocations |-> invocations,
     emitted |-> emitted]

Commit(s) ==
    /\ nodes' = s.nodes
    /\ processingLog' = s.processingLog
    /\ finalOutput' = s.finalOutput
    /\ isProcessing' = s.isProcessing
    /\ processingError' = s.processingError
    /\ currentProcessingNodeId' = s.currentProcessingNodeId
    /\ nodeErrors' = s.nodeErrors
    /\ pc' = s.pc
    /\ runNodes' = s.runNodes
    /\ runEdges' = s.runEdges
    /\ currentNode' = s.currentNode
    /\ currentInput' = s.currentInput
    /\ visitedNodes' = s.visitedNodes
    /\ i' = s.i
    /\ path' = s.path
    /\ followedEdges' = s.followedEdges
    /\ invocations' = s.invocations
    /\ emitted' = s.emitted

Cur(s) == s.currentNode[1]

IsAgentType(type) == type = AGENT \/ type = CONDITIONAL_AGENT

(* setNodeErrors(prev => ({...prev, [currentNode.id]: true})) *)
MarkNodeError(s) == [s EXCEPT !.nodeErrors = @ \cup {Cur(s).id}]

(* The statements after the loop; the handler returns. *)
FinishRun(s) ==
    [s EXCEPT !.isProcessing = FALSE, !.currentProcessingNodeId = NoNode,
              !.pc = "returned"]

(* Variant: the test without trim(). *)
QuestionIsBlank_NoTrim(q) == q = <<>>

(* if (!initialQuestion.trim()) *)
QuestionIsBlank(q) == Trim(q) = <<>>

RejectEmptyQuestion(s) ==
    [addLog(s, MsgEmptyQuestion, "error", NoNode) EXCEPT !.pc = "returned"]

(* Variant: the reset rebuilding each node without its search flag. *)
ResetForRun_DropsFlag(s, q) ==
    addLog(
        [s EXCEPT !.isProcessing = TRUE, !.processingLog = <<>>,
                  !.finalOutput = Null, !.processingError = Null,
                  !.currentProcessingNodeId = NoNode, !.nodeErrors = {},
                  !.nodes = [k \in 1..Len(@) |->
                               [@[k] EXCEPT !.output = Null,
                                            !.lastProcessedInput = Null,
                                            !.enableInternetSearch = Null]]],
        MsgStarting(q), "info", NoNode)

(* Variant: the reset without setIsProcessing(true). *)
ResetForRun_NotProcessing(s, q) ==
    addLog(
        [s EXCEPT !.processingLog = <<>>,
                  !.finalOutput = Null, !.processingError = Null,
                  !.currentProcessingNodeId = NoNode, !.nodeErrors = {},
                  !.nodes = [k \in 1..Len(@) |->
                               [@[k] EXCEPT !.output = Null,
                                            !.lastProcessedInput = Null]]],
        MsgStarting(q), "info", NoNode)

(* Reset state for a new run, and the first log entry. *)
ResetForRun(s, q) ==
    addLog(
        [s EXCEPT !.isProcessing = TRUE, !.processingLog = <<>>,
                  !.finalOutput = Null, !.processingError = Null,
                  !.currentProcessingNodeId = NoNode, !.nodeErrors = {},
                  !.nodes = [k \in 1..Len(@) |->
                               [@[k] EXCEPT !.output = Null,
                                            !.lastProcessedInput = Null]]],
        MsgStarting(q), "info", NoNode)

(* Variant: the last START node of the array instead of the first. *)
FindStartNode_Last(ns) ==
    LET starts == Filter(ns, {k \in 1..Len(ns) : ns[k].type = START})
    IN  IF starts = <<>> THEN Null ELSE Some(starts[Len(starts)])

(* nodes.find(n => n.type === NodeType.START) *)
FindStartNode(ns) == Find(ns, {k \in 1..Len(ns) : ns[k].type = START})

(* Variant: the missing START reported without setIsProcessing(false). *)
StartNotFound_StillProcessing(s) ==
    [addLog(s, MsgNoStart, "error", NoNode) EXCEPT !.pc = "returned"]

StartNotFound(s) ==
    [addLog(s, MsgNoStart, "error", NoNode) EXCEPT !.isProcessing = FALSE,
                                                   !.pc = "returned"]

(* for (...; i < nodes.length + 10; ...) *)
LoopCondition(s) == s.i < Len(s.runNodes) + LoopSlack

(* Variant: only an immediate repeat counts as a revisit. *)
AlreadyVisited_LastOnly(s) ==
    s.visitedNodes # <<>> /\ s.visitedNodes[Len(s.visitedNodes)] = Cur(s).id

(* Variant: a node counts as visited when it holds an input of an earlier   *)
(* run.                                                                      *)
AlreadyVisited_StoredInput(s) ==
    Cur(s).lastProcessedInput # Null /\ Cur(s).lastProcessedInput # Some(<<>>)

(* Variant: only agent nodes are looked up in the visited set. *)
AlreadyVisited_AgentsOnly(s) ==
    /\ IsAgentType(Cur(s).type)
    /\ \E k \in 1..Len(s.visitedNodes) : s.visitedNodes[k] = Cur(s).id

(* if (visitedNodes.has(currentNode.id)) *)
AlreadyVisited(s) == \E k \in 1..Len(s.visitedNodes) : s.visitedNodes[k] = Cur(s).id

(* Variant: the cycle reported at the node visited before the repeat. *)
CycleDetected_AtPrevious(s) ==
    LET previous == s.visitedNodes[Len(s.visitedNodes)]
    IN  FinishRun([addLog(s, MsgCycle(previous), "error", previous)
                      EXCEPT !.nodeErrors = @ \cup {previous}])

CycleDetected(s) ==
    FinishRun(MarkNodeError(addLog(s, MsgCycle(Cur(s).id), "error", Cur(s).id)))

(* Variant: the node entered without being added to the visited set. *)
EnterNode_NotRecorded(s) == [s EXCEPT !.currentProcessingNodeId = Cur(s).id]

(* visitedNodes.add(currentNode.id); setCurrentProcessingNodeId(currentNode.id) *)
EnterNode(s) ==
    [s EXCEPT !.visitedNodes = Append(@, Cur(s).id),
              !.currentProcessingNodeId = Cur(s).id]

(* Variant: the END branch without its log entry. *)
ReachEnd_NoLog(s) ==
    FinishRun(
        [s EXCEPT !.finalOutput = Some(s.currentInput),
                  !.nodes = [k \in 1..Len(@) |->
                      IF @[k].id = Cur(s).id
                      THEN [@[k] EXCEPT !.lastProcessedInput = Some(s.currentInput),
                                        !.output = Some(s.currentInput)]
                      ELSE @[k]]])

(* Variant: the END branch publishing the END node's stored output. *)
ReachEnd_NodeOutput(s) ==
    FinishRun(addLog(
        [s EXCEPT !.finalOutput = Cur(s).output,
                  !.nodes = [k \in 1..Len(@) |->
                      IF @[k].id = Cur(s).id
                      THEN [@[k] EXCEPT !.lastProcessedInput = Some(s.currentInput),
                                        !.output = Some(s.currentInput)]
                      ELSE @[k]]],
        MsgReachedEnd, "success", Cur(s).id))

(* The END branch. *)
ReachEnd(s) ==
    FinishRun(addLog(
        [s EXCEPT !.finalOutput = Some(s.currentInput),
                  !.nodes = [k \in 1..Len(@) |->
                      IF @[k].id = Cur(s).id
                      THEN [@[k] EXCEPT !.lastProcessedInput = Some(s.currentInput),
                                        !.output = Some(s.currentInput)]
                      ELSE @[k]]],
        MsgReachedEnd, "success", Cur(s).id))

(* Variant: the call without the node's search flag. *)
InvocationOf_NoSearchFlag(s) ==
    [nodeId |-> Cur(s).id, agentDescription |-> Cur(s).description,
     input |-> s.currentInput, enableInternetSearch |-> Null]

(* The arguments of processAgentTask(...) *)
InvocationOf(s) ==
    [nodeId |-> Cur(s).id, agentDescription |-> Cur(s).description,
     input |-> s.currentInput, enableInternetSearch |-> Cur(s).enableInternetSearch]

(* The agent branch up to the await. *)
InvokeAgent(s) ==
    [s EXCEPT !.nodes = [k \in 1..Len(@) |->
                  IF @[k].id = Cur(s).id
                  THEN [@[k] EXCEPT !.lastProcessedInput = Some(s.currentInput)]
                  ELSE @[k]],
              !.invocations = Append(@, InvocationOf(s)),
              !.pc = "awaiting"]

(* Variant: the last outgoing edge instead of the first. *)
FirstOutgoingEdge_Last(es, id) ==
    LET outgoing == {k \in 1..Len(es) : es[k].sourceId = id}
    IN  IF outgoing = {} THEN Null
        ELSE Some(es[CHOOSE k \in outgoing : \A j \in outgoing : j <= k])

(* edges.find(e => e.sourceId === currentNode.id) *)
FirstOutgoingEdge(es, id) == Find(es, {k \in 1..Len(es) : es[k].sourceId = id})

(* edges.filter(e => e.sourceId === currentNode.id) *)
OutgoingEdges(es, id) == Filter(es, {k \in 1..Len(es) : es[k].sourceId = id})

(* edge.conditionKeyword && currentInput.toLowerCase().includes(...) *)
KeywordMatches(edge, text) ==
    /\ edge.conditionKeyword # <<>>
    /\ Includes(ToLowerCase(text), ToLowerCase(edge.conditionKeyword))

(* Variant: the last matching edge instead of the first. *)
SelectConditionalEdge_Last(es, id, text) ==
    LET outgoingEdges == OutgoingEdges(es, id)
        matching == Filter(outgoingEdges,
                        {k \in 1..Len(outgoingEdges) :
                             KeywordMatches(outgoingEdges[k], text)})
    IN  IF matching = <<>> THEN Null ELSE Some(matching[Len(matching)])

(* Variant: the first outgoing edge as a default when no keyword matches. *)
SelectConditionalEdge_Default(es, id, text) ==
    LET outgoingEdges == OutgoingEdges(es, id)
        found == Find(outgoingEdges,
                      {k \in 1..Len(outgoingEdges) :
                           KeywordMatches(outgoingEdges[k], text)})
    IN  IF found = Null THEN FirstOutgoingEdge(es, id) ELSE found

(* outgoingEdges.find(edge => ...) *)
SelectConditionalEdge(es, id, text) ==
    LET outgoingEdges == OutgoingEdges(es, id)
    IN  Find(outgoingEdges,
             {k \in 1..Len(outgoingEdges) : KeywordMatches(outgoingEdges[k], text)})

NoMatchingBranch(s) ==
    FinishRun(MarkNodeError(addLog(s, MsgNoMatch, "error", Cur(s).id)))

(* Variant: the dead end logged without marking the node. *)
DeadEnd_Unmarked(s) ==
    FinishRun(addLog(s, MsgNoOutgoing(Cur(s).description), "error", Cur(s).id))

DeadEnd(s) ==
    FinishRun(MarkNodeError(
        addLog(s, MsgNoOutgoing(Cur(s).description), "error", Cur(s).id)))

(* nodes.find(n => n.id === nextEdgeToFollow.targetId) *)
FindTargetNode(ns, edge) == Find(ns, {k \in 1..Len(ns) : ns[k].id = edge.targetId})

(* Variant: the missing target reported without the node the edge leaves. *)
TargetNotFound_Unattributed(s) ==
    FinishRun(MarkNodeError(addLog(s, MsgTargetNotFound, "error", NoNode)))

TargetNotFound(s) ==
    FinishRun(MarkNodeError(addLog(s, MsgTargetNotFound, "error", Cur(s).id)))

RECURSIVE Loop(_)

(* Navigate to the next node, and the next iterations up to an await. *)
Navigate(s, nextEdgeToFollow) ==
    IF nextEdgeToFollow = Null THEN DeadEnd(s)
    ELSE LET s1 == [s EXCEPT !.followedEdges = Append(@, nextEdgeToFollow[1])]
             nextNode == FindTargetNode(s.runNodes, nextEdgeToFollow[1])
         IN  IF nextNode = Null THEN TargetNotFound(s1)
             ELSE Loop([s1 EXCEPT !.currentNode = nextNode,
                                  !.path = Append(@, nextNode[1].id),
                                  !.i = @ + 1])

(* One iteration of the main processing loop, from its top. *)
Loop(s) ==
    IF ~LoopCondition(s) THEN FinishRun(s)
    ELSE IF AlreadyVisited(s) THEN CycleDetected(s)
    ELSE LET s1 == EnterNode(s) IN
         IF Cur(s1).type = END THEN ReachEnd(s1)
         ELSE IF IsAgentType(Cur(s1).type) THEN InvokeAgent(s1)
         ELSE IF Cur(s1).type = START
              THEN Navigate(s1, FirstOutgoingEdge(s1.runEdges, Cur(s1).id))
              ELSE Navigate(s1, Null)

(* Variant: the edge to follow looked up in the edges as they are when the  *)
(* call settles, instead of the edges the handler was called with.          *)
AgentResolved_LiveEdges(s, text) ==
    LET s1 == [s EXCEPT !.currentInput = text,
                        !.nodes = [k \in 1..Len(@) |->
                            IF @[k].id = Cur(s).id
                            THEN [@[k] EXCEPT !.output = Some(text)]
                            ELSE @[k]]]
        s2 == addLog(s1, MsgAgentOutput(Cur(s).type, text), "success", Cur(s).id)
    IN  IF Cur(s).type = CONDITIONAL_AGENT
        THEN LET nextEdgeToFollow ==
                     SelectConditionalEdge(edges, Cur(s).id, s2.currentInput)
             IN  IF nextEdgeToFollow = Null THEN NoMatchingBranch(s2)
                 ELSE Navigate(s2, nextEdgeToFollow)
        ELSE Navigate(s2, FirstOutgoingEdge(edges, Cur(s).id))

(* Variant: the try block without its log entry. *)
AgentResolved_NoOutputEntry(s, text) ==
    LET s2 == [s EXCEPT !.currentInput = text,
                        !.nodes = [k \in 1..Len(@) |->
                            IF @[k].id = Cur(s).id
                            THEN [@[k] EXCEPT !.output = Some(text)]
                            ELSE @[k]]]
    IN  IF Cur(s).type = CONDITIONAL_AGENT
        THEN LET nextEdgeToFollow ==
                     SelectConditionalEdge(s2.runEdges, Cur(s).id, s2.currentInput)
             IN  IF nextEdgeToFollow = Null THEN NoMatchingBranch(s2)
                 ELSE Navigate(s2, nextEdgeToFollow)
        ELSE Navigate(s2, FirstOutgoingEdge(s2.runEdges, Cur(s).id))

(* The body of the try block after the await. *)
AgentResolved(s, text) ==
    LET s1 == [s EXCEPT !.currentInput = text,
                        !.nodes = [k \in 1..Len(@) |->
                            IF @[k].id = Cur(s).id
                            THEN [@[k] EXCEPT !.output = Some(text)]
                            ELSE @[k]]]
        s2 == addLog(s1, MsgAgentOutput(Cur(s).type, text), "success", Cur(s).id)
    IN  IF Cur(s).type = CONDITIONAL_AGENT
        THEN LET nextEdgeToFollow ==
                     SelectConditionalEdge(s2.runEdges, Cur(s).id, s2.currentInput)
             IN  IF nextEdgeToFollow = Null THEN NoMatchingBranch(s2)
                 ELSE Navigate(s2, nextEdgeToFollow)
        ELSE Navigate(s2, FirstOutgoingEdge(s2.runEdges, Cur(s).id))

(* Variant: the catch block logging without err.message. *)
AgentRejected_NoMessage(s, errMessage) ==
    FinishRun(MarkNodeError(
        addLog(s, MsgAgentError(Cur(s).description, <<>>), "error", Cur(s).id)))

(* The catch block. *)
AgentRejected(s, errMessage) ==
    FinishRun(MarkNodeError(
        addLog(s, MsgAgentError(Cur(s).description, errMessage), "error", Cur(s).id)))

(* handleProcessFlow from its call to its first await or its return. *)
BeginRun(s, ns, es, q) ==
    IF QuestionIsBlank(q) THEN RejectEmptyQuestion(s)
    ELSE LET s1 == ResetForRun(s, q)
             start == FindStartNode(ns)
         IN  IF start = Null THEN StartNotFound(s1)
             ELSE Loop([s1 EXCEPT !.runNodes = ns, !.runEdges = es,
                                  !.currentNode = start, !.currentInput = q,
                                  !.path = <<start[1].id>>,
                                  !.visitedNodes = <<>>, !.i = 0])

-----------------------------------------------------------------------------
(* processAgentTask: what the awaited promise can settle to. *)

Outputs == {<<"o", "Y">>, <<"o", "y">>, <<"n">>}

ErrMessages ==
    {<<"Gemini API Error: ", "e">>, <<"An unknown error occurred with the Gemini API.">>}

-----------------------------------------------------------------------------
(* The inputs of a run: graphs as the types of src/types.ts allow them, with *)
(* node k of the array carrying id k.  An id beyond the array is the id of   *)
(* no node.  The handler reads edges only by filter and find on sourceId, so *)
(* the relative order of two edges with different sources is never observed: *)
(* the arrays list the edges by source.  A keyword is read only on the edges *)
(* leaving a CONDITIONAL_AGENT node, so the other edges carry the keyword '' *)
(* that handleNodeClick gives a new edge.                                    *)

Questions == {<<>>, <<" ">>, <<" ", "q">>}

Keywords == {<<>>, <<"Y">>}

Description(id) == <<"role", ToString(id)>>

NewNode(id, type) ==
    [id |-> id, type |-> type, description |-> Description(id),
     enableInternetSearch |-> IF IsAgentType(type) THEN Some(id % 2 = 0) ELSE Null,
     output |-> Some(<<>>), lastProcessedInput |-> Some(<<>>)]

NodeArrays ==
    UNION {{[k \in 1..n |-> NewNode(k, types[k])] : types \in [1..n -> NodeType]} :
           n \in 0..MaxNodes}

EdgeChoices(ns) ==
    UNION {{[sourceId |-> src, targetId |-> tgt, conditionKeyword |-> kw] :
                tgt \in 1..(Len(ns) + 1),
                kw \in IF ns[src].type = CONDITIONAL_AGENT THEN Keywords ELSE {<<>>}} :
           src \in 1..Len(ns)}

ListedBySource(es) ==
    \A k \in 1..(Len(es) - 1) : es[k].sourceId <= es[k + 1].sourceId

EdgeArrays(ns) ==
    UNION {{[k \in 1..m |-> [id |-> k] @@ es[k]] :
                es \in {x \in [1..m -> EdgeChoices(ns)] : ListedBySource(x)}} :
           m \in 0..MaxEdges}

-----------------------------------------------------------------------------
(* The engine run on a given graph and question *)

EngineInit ==
    /\ nodes \in NodeArrays
    /\ edges \in EdgeArrays(nodes)
    /\ initialQuestion \in Questions
    /\ processingLog = <<>>
    /\ finalOutput = Null
    /\ isProcessing = FALSE
    /\ processingError = Null
    /\ currentProcessingNodeId = NoNode
    /\ nodeErrors = {}
    /\ pc = "idle"
    /\ runNodes = <<>>
    /\ runEdges = <<>>
    /\ currentNode = Null
    /\ currentInput = <<>>
    /\ visitedNodes = <<>>
    /\ i = 0
    /\ path = <<>>
    /\ followedEdges = <<>>
    /\ invocations = <<>>
    /\ responses = <<>>
    /\ emitted = <<>>
    /\ selectedNodeId = NoNode
    /\ connectingFromNodeId = NoNode
    /\ nextId = Len(nodes) + Len(edges) + 2
    /\ edits = 0
    /\ runs = 0
    /\ previousRun = Null

(* handleProcessFlow is called. *)
ProcessFlow ==
    /\ pc = "idle"
    /\ Commit(BeginRun(State, nodes, edges, initialQuestion))
    /\ UNCHANGED <<edges, initialQuestion, responses, editorVars, historyVars>>

(* The awaited processAgentTask resolves with a text. *)
AgentResolves ==
    /\ pc = "awaiting"
    /\ \E text \in Outputs :
          /\ Commit(AgentResolved(State, text))
          /\ responses' = Append(responses, [ok |-> TRUE, text |-> text])
    /\ UNCHANGED <<edges, initialQuestion, editorVars, historyVars>>

(* The awaited processAgentTask rejects with an Error. *)
AgentRejects ==
    /\ pc = "awaiting"
    /\ \E errMessage \in ErrMessages :
          /\ Commit(AgentRejected(State, errMessage))
          /\ responses' = Append(responses, [ok |-> FALSE, text |-> errMessage])
    /\ UNCHANGED <<edges, initialQuestion, editorVars, historyVars>>

EngineNext == ProcessFlow \/ AgentResolves \/ AgentRejects

EngineSpec == EngineInit /\ [][EngineNext]_vars

-----------------------------------------------------------------------------
(* Runs started from the Toolbar, one after the other, against a service    *)
(* that answers each node the same way every time.                           *)

(* The Start Flow button: disabled={isProcessing || !initialQuestion} *)
StartFlowDisabled == isProcessing \/ initialQuestion = <<>>

(* What the call so far has left, as the next call finds it. *)
RunRecord ==
    [nodes |-> nodes, processingLog |-> processingLog, finalOutput |-> finalOutput,
     nodeErrors |-> nodeErrors, isProcessing |-> isProcessing,
     currentProcessingNodeId |-> currentProcessingNodeId, path |-> path,
     visitedNodes |-> visitedNodes, followedEdges |-> followedEdges,
     emitted |-> emitted, invocations |-> invocations, responses |-> responses]

(* A call of the handler has locals of its own. *)
NewCall(s) ==
    [s EXCEPT !.runNodes = <<>>, !.runEdges = <<>>, !.currentNode = Null,
              !.currentInput = <<>>, !.visitedNodes = <<>>, !.i = 0,
              !.path = <<>>, !.followedEdges = <<>>, !.invocations = <<>>,
              !.emitted = <<>>]

(* A click on Start Flow: onClick={onProcessFlow}. *)
ClickStartFlow ==
    /\ ~StartFlowDisabled
    /\ runs < MaxRuns
    /\ Commit(BeginRun(NewCall(State), nodes, edges, initialQuestion))
    /\ responses' = <<>>
    /\ runs' = runs + 1
    /\ previousRun' = IF runs = 0 THEN Null ELSE Some(RunRecord)
    /\ UNCHANGED <<edges, initialQuestion, editorVars>>

(* The service answers a node as it answered it in the call before. *)
StubAllows(nodeId, response) ==
    IF previousRun = Null THEN TRUE
    ELSE \A k \in 1..Len(previousRun[1].responses) :
             previousRun[1].invocations[k].nodeId = nodeId =>
                 previousRun[1].responses[k] = response

StubResolves ==
    /\ pc = "awaiting"
    /\ \E text \in Outputs :
          /\ StubAllows(Cur(State).id, [ok |-> TRUE, text |-> text])
          /\ Commit(AgentResolved(State, text))
          /\ responses' = Append(responses, [ok |-> TRUE, text |-> text])
    /\ UNCHANGED <<edges, initialQuestion, editorVars, historyVars>>

StubRejects ==
    /\ pc = "awaiting"
    /\ \E errMessage \in ErrMessages :
          /\ StubAllows(Cur(State).id, [ok |-> FALSE, text |-> errMessage])
          /\ Commit(AgentRejected(State, errMessage))
          /\ responses' = Append(responses, [ok |-> FALSE, text |-> errMessage])
    /\ UNCHANGED <<edges, initialQuestion, editorVars, historyVars>>

RerunNext == ClickStartFlow \/ StubResolves \/ StubRejects

RerunSpec == EngineInit /\ [][RerunNext]_vars

-----------------------------------------------------------------------------
(* The engine with a service that settles every call it is given: a promise *)
(* returned by processAgentTask resolves or rejects.                         *)

FairEngineInit ==
    EngineInit /\ Len(nodes) <= MaxFairNodes /\ Len(edges) <= MaxFairEdges

FairEngineSpec ==
    FairEngineInit /\ [][EngineNext]_vars /\ WF_vars(AgentResolves \/ AgentRejects)

-----------------------------------------------------------------------------
(* The editor: the handlers of App that change the graph, and the controls  *)
(* of Toolbar, AgentNodeComponent, AgentEditPanel and the canvas that call   *)
(* them.  None of them is disabled while a run is under way.                 *)

runVars == <<initialQuestion, finalOutput, isProcessing, processingError,
             currentProcessingNodeId, nodeErrors, pc, runNodes, runEdges,
             currentNode, currentInput, visitedNodes, i, path, followedEdges,
             invocations, responses, emitted, runs, previousRun>>

(* type.replace(/_/g, ' ') *)
TypeLabel(type) == IF type = CONDITIONAL_AGENT THEN "CONDITIONAL AGENT" ELSE type

(* type.substring(0, 10) *)
TypePrefix(type) == IF type = CONDITIONAL_AGENT THEN "CONDITIONA" ELSE type

MsgOneOutgoing(type) ==
    <<TypeLabel(type),
      " nodes can only have one outgoing connection. Delete existing one first.">>
MsgConnected(sourceType, targetType) ==
    <<"Connected ", TypePrefix(sourceType), "... to ", TypePrefix(targetType), "...">>
MsgInvalidConnection == <<"Invalid connection attempt.">>

(* nodes.find(n => n.id === id) *)
NodeById(ns, id) == Find(ns, {k \in 1..Len(ns) : ns[k].id = id})

(* `New ${type.replace(/_/g, ' ')} ${nodes.filter(n => n.type === type).length + 1}` *)
DefaultDescription(ns, type) ==
    <<"New ", TypeLabel(type), " ",
      ToString(Len(Filter(ns, {k \in 1..Len(ns) : ns[k].type = type})) + 1)>>

handleAddNode(type) ==
    /\ nodes' = Append(nodes,
                     [id |-> nextId, type |-> type,
                      description |-> DefaultDescription(nodes, type),
                      enableInternetSearch |->
                          IF IsAgentType(type) THEN Some(FALSE) ELSE Null,
                      output |-> Some(<<>>), lastProcessedInput |-> Some(<<>>)])
    /\ selectedNodeId' = nextId
    /\ nextId' = nextId + 1
    /\ UNCHANGED <<edges, connectingFromNodeId, processingLog, runVars>>

(* Variant: only START nodes are held to one outgoing connection. *)
handleNodeClick_NoLimit(nodeId) ==
    IF connectingFromNodeId # NoNode /\ connectingFromNodeId # nodeId
    THEN LET sourceNode == NodeById(nodes, connectingFromNodeId)
             targetNode == NodeById(nodes, nodeId)
             existingEdgeFromSource == FirstOutgoingEdge(edges, connectingFromNodeId)
         IN  /\ IF /\ sourceNode # Null
                    /\ targetNode # Null
                    /\ sourceNode[1].type # END
                    /\ targetNode[1].type # START
                 THEN IF /\ sourceNode[1].type = START
                         /\ existingEdgeFromSource # Null
                      THEN /\ processingLog' =
                                 Append(processingLog,
                                        LogEntry(MsgOneOutgoing(sourceNode[1].type),
                                                 "error", NoNode))
                           /\ UNCHANGED <<edges, nextId>>
                      ELSE /\ edges' =
                                 Append(edges,
                                        [id |-> nextId,
                                         sourceId |-> connectingFromNodeId,
                                         targetId |-> nodeId,
                                         conditionKeyword |-> <<>>])
                           /\ nextId' = nextId + 1
                           /\ processingLog' =
                                 Append(processingLog,
                                        LogEntry(MsgConnected(sourceNode[1].type,
                                                              targetNode[1].type),
                                                 "info", NoNode))
                 ELSE /\ processingLog' =
                            Append(processingLog,
                                   LogEntry(MsgInvalidConnection, "error", NoNode))
                      /\ UNCHANGED <<edges, nextId>>
             /\ connectingFromNodeId' = NoNode
             /\ UNCHANGED <<nodes, selectedNodeId, runVars>>
    ELSE /\ selectedNodeId' = nodeId
         /\ UNCHANGED <<nodes, edges, connectingFromNodeId, nextId, processingLog,
                        runVars>>

(* Variant: the target's type is not looked at. *)
handleNodeClick_AnyTarget(nodeId) ==
    IF connectingFromNodeId # NoNode /\ connectingFromNodeId # nodeId
    THEN LET sourceNode == NodeById(nodes, connectingFromNodeId)
             targetNode == NodeById(nodes, nodeId)
             existingEdgeFromSource == FirstOutgoingEdge(edges, connectingFromNodeId)
         IN  /\ IF /\ sourceNode # Null
                    /\ targetNode # Null
                    /\ sourceNode[1].type # END
                 THEN IF /\ sourceNode[1].type \in {START, AGENT}
                         /\ existingEdgeFromSource # Null
                      THEN /\ processingLog' =
                                 Append(processingLog,
                                        LogEntry(MsgOneOutgoing(sourceNode[1].type),
                                                 "error", NoNode))
                           /\ UNCHANGED <<edges, nextId>>
                      ELSE /\ edges' =
                                 Append(edges,
                                        [id |-> nextId,
                                         sourceId |-> connectingFromNodeId,
                                         targetId |-> nodeId,
                                         conditionKeyword |-> <<>>])
                           /\ nextId' = nextId + 1
                           /\ processingLog' =
                                 Append(processingLog,
                                        LogEntry(MsgConnected(sourceNode[1].type,
                                                              targetNode[1].type),
                                                 "info", NoNode))
                 ELSE /\ processingLog' =
                            Append(processingLog,
                                   LogEntry(MsgInvalidConnection, "error", NoNode))
                      /\ UNCHANGED <<edges, nextId>>
             /\ connectingFromNodeId' = NoNode
             /\ UNCHANGED <<nodes, selectedNodeId, runVars>>
    ELSE /\ selectedNodeId' = nodeId
         /\ UNCHANGED <<nodes, edges, connectingFromNodeId, nextId, processingLog,
                        runVars>>

handleNodeClick(nodeId) ==
    IF connectingFromNodeId # NoNode /\ connectingFromNodeId # nodeId
    THEN LET sourceNode == NodeById(nodes, connectingFromNodeId)
             targetNode == NodeById(nodes, nodeId)
             existingEdgeFromSource == FirstOutgoingEdge(edges, connectingFromNodeId)
         IN  /\ IF /\ sourceNode # Null
                    /\ targetNode # Null
                    /\ sourceNode[1].type # END
                    /\ targetNode[1].type # START
                 THEN IF /\ sourceNode[1].type \in {START, AGENT}
                         /\ existingEdgeFromSource # Null
                      THEN /\ processingLog' =
                                 Append(processingLog,
                                        LogEntry(MsgOneOutgoing(sourceNode[1].type),
                                                 "error", NoNode))
                           /\ UNCHANGED <<edges, nextId>>
                      ELSE /\ edges' =
                                 Append(edges,
                                        [id |-> nextId,
                                         sourceId |-> connectingFromNodeId,
                                         targetId |-> nodeId,
                                         conditionKeyword |-> <<>>])
                           /\ nextId' = nextId + 1
                           /\ processingLog' =
                                 Append(processingLog,
                                        LogEntry(MsgConnected(sourceNode[1].type,
                                                              targetNode[1].type),
                                                 "info", NoNode))
                 ELSE /\ processingLog' =
                            Append(processingLog,
                                   LogEntry(MsgInvalidConnection, "error", NoNode))
                      /\ UNCHANGED <<edges, nextId>>
             /\ connectingFromNodeId' = NoNode
             /\ UNCHANGED <<nodes, selectedNodeId, runVars>>
    ELSE /\ selectedNodeId' = nodeId
         /\ UNCHANGED <<nodes, edges, connectingFromNodeId, nextId, processingLog,
                        runVars>>

handleUpdateNodeDescription(nodeId, description) ==
    /\ nodes' = [k \in 1..Len(nodes) |->
                    IF nodes[k].id = nodeId
                    THEN [nodes[k] EXCEPT !.description = description]
                    ELSE nodes[k]]
    /\ UNCHANGED <<edges, selectedNodeId, connectingFromNodeId, nextId,
                   processingLog, runVars>>

handleToggleInternetSearch(nodeId, enabled) ==
    /\ nodes' = [k \in 1..Len(nodes) |->
                    IF nodes[k].id = nodeId /\ IsAgentType(nodes[k].type)
                    THEN [nodes[k] EXCEPT !.enableInternetSearch = Some(enabled)]
                    ELSE nodes[k]]
    /\ UNCHANGED <<edges, selectedNodeId, connectingFromNodeId, nextId,
                   processingLog, runVars>>

handleUpdateEdgeKeyword(edgeId, keyword) ==
    /\ edges' = [k \in 1..Len(edges) |->
                    IF edges[k].id = edgeId
                    THEN [edges[k] EXCEPT !.conditionKeyword = Trim(keyword)]
                    ELSE edges[k]]
    /\ UNCHANGED <<nodes, selectedNodeId, connectingFromNodeId, nextId,
                   processingLog, runVars>>

(* Variant: the node deleted together with its error mark. *)
handleDeleteNode_ClearsMark(nodeId) ==
    /\ nodes' = Filter(nodes, {k \in 1..Len(nodes) : nodes[k].id # nodeId})
    /\ edges' = Filter(edges, {k \in 1..Len(edges) :
                                  /\ edges[k].sourceId # nodeId
                                  /\ edges[k].targetId # nodeId})
    /\ selectedNodeId' = IF selectedNodeId = nodeId THEN NoNode ELSE selectedNodeId
    /\ nodeErrors' = nodeErrors \ {nodeId}
    /\ UNCHANGED <<connectingFromNodeId, nextId, processingLog, initialQuestion,
                   finalOutput, isProcessing, processingError,
                   currentProcessingNodeId, pc, runNodes, runEdges, currentNode,
                   currentInput, visitedNodes, i, path, followedEdges,
                   invocations, responses, emitted, runs, previousRun>>

(* Variant: the node deleted without the edges at it. *)
handleDeleteNode_KeepsEdges(nodeId) ==
    /\ nodes' = Filter(nodes, {k \in 1..Len(nodes) : nodes[k].id # nodeId})
    /\ selectedNodeId' = IF selectedNodeId = nodeId THEN NoNode ELSE selectedNodeId
    /\ UNCHANGED <<edges, connectingFromNodeId, nextId, processingLog, runVars>>

handleDeleteNode(nodeId) ==
    /\ nodes' = Filter(nodes, {k \in 1..Len(nodes) : nodes[k].id # nodeId})
    /\ edges' = Filter(edges, {k \in 1..Len(edges) :
                                  /\ edges[k].sourceId # nodeId
                                  /\ edges[k].targetId # nodeId})
    /\ selectedNodeId' = IF selectedNodeId = nodeId THEN NoNode ELSE selectedNodeId
    /\ UNCHANGED <<connectingFromNodeId, nextId, processingLog, runVars>>

handleDeleteEdge(edgeId) ==
    /\ edges' = Filter(edges, {k \in 1..Len(edges) : edges[k].id # edgeId})
    /\ UNCHANGED <<nodes, selectedNodeId, connectingFromNodeId, nextId,
                   processingLog, runVars>>

handleDeleteEdgesFromSource(sourceId) ==
    /\ edges' = Filter(edges, {k \in 1..Len(edges) : edges[k].sourceId # sourceId})
    /\ UNCHANGED <<nodes, selectedNodeId, connectingFromNodeId, nextId,
                   processingLog, runVars>>

handleDeleteEdgesToTarget(targetId) ==
    /\ edges' = Filter(edges, {k \in 1..Len(edges) : edges[k].targetId # targetId})
    /\ UNCHANGED <<nodes, selectedNodeId, connectingFromNodeId, nextId,
                   processingLog, runVars>>

handleStartConnection(nodeId) ==
    /\ connectingFromNodeId' = nodeId
    /\ selectedNodeId' = nodeId
    /\ UNCHANGED <<nodes, edges, nextId, processingLog, runVars>>

-----------------------------------------------------------------------------
(* The controls.  AgentEditPanel shows the node selectedNodeDetails.         *)

selectedNodeDetails ==
    IF selectedNodeId # NoNode THEN NodeById(nodes, selectedNodeId) ELSE Null

(* What the user can type into a role text or a keyword field. *)
TypedDescriptions == {<<"edited">>}

TypedKeywords == {<<>>, <<"Y">>, <<"n", " ">>}

(* Toolbar: Add Agent, Add Conditional Agent. *)
ClickAddNode ==
    /\ Len(nodes) < MaxAgents + 2
    /\ \E type \in {AGENT, CONDITIONAL_AGENT} : handleAddNode(type)

(* AgentNodeComponent: onClick. *)
ClickNode == \E k \in 1..Len(nodes) : handleNodeClick(nodes[k].id)

(* The role textarea, shown for the agent types: onBlur. *)
BlurDescription ==
    /\ selectedNodeDetails # Null
    /\ IsAgentType(selectedNodeDetails[1].type)
    /\ \E description \in TypedDescriptions :
          handleUpdateNodeDescription(selectedNodeDetails[1].id, description)

(* The search checkbox, showing the node's flag: onChange. *)
ToggleInternetSearch ==
    /\ selectedNodeDetails # Null
    /\ IsAgentType(selectedNodeDetails[1].type)
    /\ handleToggleInternetSearch(
           selectedNodeDetails[1].id,
           selectedNodeDetails[1].enableInternetSearch # Some(TRUE))

(* The keyword fields of a conditional node's outgoing edges: onChange. *)
ChangeKeyword ==
    /\ selectedNodeDetails # Null
    /\ selectedNodeDetails[1].type = CONDITIONAL_AGENT
    /\ \E k \in 1..Len(edges), keyword \in TypedKeywords :
          /\ edges[k].sourceId = selectedNodeDetails[1].id
          /\ handleUpdateEdgeKeyword(edges[k].id, keyword)

(* Connect From This Node: canConnectFrom, disabled={isConnectingFromThisNode} *)
ClickConnectFrom ==
    /\ selectedNodeDetails # Null
    /\ selectedNodeDetails[1].type # END
    /\ connectingFromNodeId # selectedNodeId
    /\ handleStartConnection(selectedNodeDetails[1].id)

ClickDeleteOutgoing ==
    /\ selectedNodeDetails # Null
    /\ handleDeleteEdgesFromSource(selectedNodeDetails[1].id)

ClickDeleteIncoming ==
    /\ selectedNodeDetails # Null
    /\ handleDeleteEdgesToTarget(selectedNodeDetails[1].id)

(* Variant: the button offered for every node. *)
ClickDeleteNode_AnyNode ==
    /\ selectedNodeDetails # Null
    /\ handleDeleteNode(selectedNodeDetails[1].id)

(* Delete This Agent: canDelete *)
ClickDeleteNode ==
    /\ selectedNodeDetails # Null
    /\ selectedNodeDetails[1].type # START
    /\ selectedNodeDetails[1].type # END
    /\ handleDeleteNode(selectedNodeDetails[1].id)

(* A click on a drawn edge, confirmed; an edge is drawn when both its nodes  *)
(* exist.                                                                    *)
ClickEdge ==
    \E k \in 1..Len(edges) :
        /\ NodeById(nodes, edges[k].sourceId) # Null
        /\ NodeById(nodes, edges[k].targetId) # Null
        /\ handleDeleteEdge(edges[k].id)

-----------------------------------------------------------------------------
(* A run on a graph built in the editor, with the editor used while the run *)
(* is suspended on a call.                                                   *)

(* initializeFlow's START and END nodes and the agents added since. *)
EditorNodeArrays ==
    UNION {{<<NewNode(1, START), NewNode(2, END)>>
                \o [k \in 1..n |-> NewNode(k + 2, types[k])] :
                types \in [1..n -> {AGENT, CONDITIONAL_AGENT}]} :
           n \in 0..MaxAgents}

(* The edges handleNodeClick lets through. *)
EditorEdges(ns, es) ==
    \A k \in 1..Len(es) :
        /\ es[k].sourceId # es[k].targetId
        /\ es[k].targetId <= Len(ns)
        /\ ns[es[k].sourceId].type # END
        /\ ns[es[k].targetId].type # START
        /\ ns[es[k].sourceId].type \in {START, AGENT} =>
               \A j \in 1..Len(es) : es[j].sourceId = es[k].sourceId => j = k

EditInit ==
    /\ nodes \in EditorNodeArrays
    /\ edges \in {es \in EdgeArrays(nodes) : EditorEdges(nodes, es)}
    /\ initialQuestion \in {q \in Questions : ~QuestionIsBlank(q)}
    /\ processingLog = <<>>
    /\ finalOutput = Null
    /\ isProcessing = FALSE
    /\ processingError = Null
    /\ currentProcessingNodeId = NoNode
    /\ nodeErrors = {}
    /\ pc = "idle"
    /\ runNodes = <<>>
    /\ runEdges = <<>>
    /\ currentNode = Null
    /\ currentInput = <<>>
    /\ visitedNodes = <<>>
    /\ i = 0
    /\ path = <<>>
    /\ followedEdges = <<>>
    /\ invocations = <<>>
    /\ responses = <<>>
    /\ emitted = <<>>
    /\ selectedNodeId \in {NoNode} \cup {nodes[k].id : k \in 1..Len(nodes)}
    /\ connectingFromNodeId \in {NoNode} \cup {nodes[k].id : k \in 1..Len(nodes)}
    /\ nextId = Len(nodes) + Len(edges) + 2
    /\ edits = 0
    /\ runs = 0
    /\ previousRun = Null

(* The run is suspended on a call and the editor may still be used. *)
EditWhileSuspended ==
    /\ pc = "awaiting"
    /\ edits < MaxEdits
    /\ edits' = edits + 1

EditNext ==
    \/ ProcessFlow
    \/ AgentResolves
    \/ AgentRejects
    \/ EditWhileSuspended /\ ClickAddNode
    \/ EditWhileSuspended /\ ClickNode
    \/ EditWhileSuspended /\ BlurDescription
    \/ EditWhileSuspended /\ ToggleInternetSearch
    \/ EditWhileSuspended /\ ChangeKeyword
    \/ EditWhileSuspended /\ ClickConnectFrom
    \/ EditWhileSuspended /\ ClickDeleteOutgoing
    \/ EditWhileSuspended /\ ClickDeleteIncoming
    \/ EditWhileSuspended /\ ClickDeleteNode
    \/ EditWhileSuspended /\ ClickEdge

EditSpec == EditInit /\ [][EditNext]_vars

-----------------------------------------------------------------------------
(* The application as its user drives it: from the mounted component, any   *)
(* sequence of the controls, with runs started from the Toolbar.             *)

(* The START and END nodes initializeFlow creates. *)
InitialNodes(startNodeId, endNodeId) ==
    <<[id |-> startNodeId, type |-> START, description |-> <<"Workflow Start">>,
       enableInternetSearch |-> Null, output |-> Some(<<>>),
       lastProcessedInput |-> Some(<<>>)],
      [id |-> endNodeId, type |-> END, description |-> <<"Workflow End">>,
       enableInternetSearch |-> Null, output |-> Some(<<>>),
       lastProcessedInput |-> Some(<<>>)]>>

(* initializeFlow, called by handleClearFlow once the user has confirmed.    *)
(* No call of handleProcessFlow is pending then (the button is disabled      *)
(* while isProcessing), and what a finished call has left is gone.           *)
initializeFlow ==
    /\ nodes' = InitialNodes(nextId, nextId + 1)
    /\ nextId' = nextId + 2
    /\ edges' = <<>>
    /\ selectedNodeId' = NoNode
    /\ connectingFromNodeId' = NoNode
    /\ initialQuestion' = <<>>
    /\ processingLog' = <<>>
    /\ finalOutput' = Null
    /\ isProcessing' = FALSE
    /\ processingError' = Null
    /\ currentProcessingNodeId' = NoNode
    /\ nodeErrors' = {}
    /\ pc' = "idle"
    /\ runNodes' = <<>>
    /\ runEdges' = <<>>
    /\ currentNode' = Null
    /\ currentInput' = <<>>
    /\ visitedNodes' = <<>>
    /\ i' = 0
    /\ path' = <<>>
    /\ followedEdges' = <<>>
    /\ invocations' = <<>>
    /\ responses' = <<>>
    /\ emitted' = <<>>
    /\ UNCHANGED <<runs, previousRun>>

handleClearFlow == initializeFlow

(* if (!draggingNodeId), no drag being under way at a click *)
handleCanvasClick ==
    /\ selectedNodeId' = NoNode
    /\ connectingFromNodeId' = NoNode
    /\ UNCHANGED <<nodes, edges, nextId, processingLog, runVars>>

(* Toolbar: Clear Flow, disabled={isProcessing} *)
ClickClearFlow == ~isProcessing /\ handleClearFlow

(* The canvas background: onClick={handleCanvasClick} *)
ClickCanvas == handleCanvasClick

(* Toolbar: the question field, onInitialQuestionChange={setInitialQuestion} *)
TypeQuestion ==
    /\ \E question \in Questions :
          /\ question # initialQuestion
          /\ initialQuestion' = question
    /\ UNCHANGED <<nodes, edges, selectedNodeId, connectingFromNodeId, nextId,
                   processingLog, finalOutput, isProcessing, processingError,
                   currentProcessingNodeId, nodeErrors, pc, runNodes, runEdges,
                   currentNode, currentInput, visitedNodes, i, path,
                   followedEdges, invocations, responses, emitted, runs,
                   previousRun>>

(* The state the mounted component shows: initializeFlow has run once. *)
AppInit ==
    /\ nodes = InitialNodes(1, 2)
    /\ nextId = 3
    /\ edges = <<>>
    /\ selectedNodeId = NoNode
    /\ connectingFromNodeId = NoNode
    /\ initialQuestion = <<>>
    /\ processingLog = <<>>
    /\ finalOutput = Null
    /\ isProcessing = FALSE
    /\ processingError = Null
    /\ currentProcessingNodeId = NoNode
    /\ nodeErrors = {}
    /\ pc = "idle"
    /\ runNodes = <<>>
    /\ runEdges = <<>>
    /\ currentNode = Null
    /\ currentInput = <<>>
    /\ visitedNodes = <<>>
    /\ i = 0
    /\ path = <<>>
    /\ followedEdges = <<>>
    /\ invocations = <<>>
    /\ responses = <<>>
    /\ emitted = <<>>
    /\ edits = 0
    /\ runs = 0
    /\ previousRun = Null

(* One more operation of the user. *)
UserOperation ==
    /\ edits < MaxOps
    /\ edits' = edits + 1

AppNext ==
    \/ ClickStartFlow
    \/ AgentResolves
    \/ AgentRejects
    \/ UserOperation /\ TypeQuestion
    \/ UserOperation /\ ClickClearFlow
    \/ UserOperation /\ ClickCanvas
    \/ UserOperation /\ ClickAddNode
    \/ UserOperation /\ ClickNode
    \/ UserOperation /\ BlurDescription
    \/ UserOperation /\ ToggleInternetSearch
    \/ UserOperation /\ ChangeKeyword
    \/ UserOperation /\ ClickConnectFrom
    \/ UserOperation /\ ClickDeleteOutgoing
    \/ UserOperation /\ ClickDeleteIncoming
    \/ UserOperation /\ ClickDeleteNode
    \/ UserOperation /\ ClickEdge

AppSpec == AppInit /\ [][AppNext]_vars

-----------------------------------------------------------------------------
(* Vocabulary of the properties, stated on the observable state alone *)

Last(seq) == seq[Len(seq)]

NoDuplicates(seq) == \A j, k \in 1..Len(seq) : seq[j] = seq[k] => j = k

Returned == pc = "returned"

(* The node of the run's graph with a given id (ids are unique). *)
RunNode(id) == CHOOSE n \in {runNodes[k] : k \in 1..Len(runNodes)} : n.id = id

IsRunNodeId(id) == \E k \in 1..Len(runNodes) : runNodes[k].id = id

(* Terminal entries of the log. *)
IsErrorEntry(e) == e.status = "error"

IsCompletedEntry(e) == e.status = "success" /\ e.message = MsgReachedEnd

IsNodeOutputEntry(e) == e.status = "success" /\ e.message # MsgReachedEnd

ErrorEntries ==
    Cardinality({k \in 1..Len(processingLog) : IsErrorEntry(processingLog[k])})

CompletedEntries ==
    Cardinality({k \in 1..Len(processingLog) : IsCompletedEntry(processingLog[k])})

(* Two characters that differ at most in case. *)
SameLetter(c, d) == c = d \/ {c, d} = {"y", "Y"} \/ {c, d} = {"n", "N"}

(* kw occurs in text as a substring, case ignored. *)
OccursIgnoringCase(kw, text) ==
    \E k \in 0..(Len(text) - Len(kw)) :
        \A j \in 1..Len(kw) : SameLetter(text[k + j], kw[j])

EdgeMatches(e, text) ==
    e.conditionKeyword # <<>> /\ OccursIgnoringCase(e.conditionKeyword, text)

(* The positions in the run's edges array of the edges leaving a node. *)
OutgoingPositions(id) == {k \in 1..Len(runEdges) : runEdges[k].sourceId = id}

(* The position of an edge in the run's edges array (ids are unique). *)
EdgePosition(e) == CHOOSE k \in 1..Len(runEdges) : runEdges[k].id = e.id

(* Every call made so far has settled. *)
AllSettled == Len(responses) = Len(invocations)

(* The text the invocation of node id resolved with, when it has. *)
HasOutput(id) ==
    \E k \in 1..Len(responses) : invocations[k].nodeId = id /\ responses[k].ok

OutputOf(id) ==
    responses[CHOOSE k \in 1..Len(responses) :
                  invocations[k].nodeId = id /\ responses[k].ok].text

TimesInvoked(id) ==
    Cardinality({k \in 1..Len(invocations) : invocations[k].nodeId = id})

-----------------------------------------------------------------------------
(* C1: every run of handleProcessFlow ends in exactly one terminal outcome:  *)
(* when the handler has returned, the log holds either exactly one END       *)
(* 'success' entry and no 'error' entry, with finalOutput set and no node    *)
(* marked in nodeErrors, or exactly one 'error' entry and no END entry, with *)
(* finalOutput unset; the terminal entry is the last entry of the log, and   *)
(* no terminal entry is in the log while the run is still under way.         *)
C1_ExactlyOneTerminalOutcome ==
    /\ Returned =>
          /\ ErrorEntries + CompletedEntries = 1
          /\ IsErrorEntry(Last(processingLog)) \/ IsCompletedEntry(Last(processingLog))
          /\ CompletedEntries = 1 => finalOutput # Null /\ nodeErrors = {}
          /\ ErrorEntries = 1 => finalOutput = Null
    /\ ~Returned => ErrorEntries + CompletedEntries = 0 /\ finalOutput = Null

(* A run that invoked an agent and then reached END. *)
C1_Witness ==
    Returned /\ CompletedEntries = 1 /\ Len(invocations) = 1

-----------------------------------------------------------------------------
(* C2: at a CONDITIONAL_AGENT node whose invocation succeeded, the edge      *)
(* followed is the first edge, in edges-array order among the node's         *)
(* outgoing edges, whose keyword is non-empty and occurs in the node's       *)
(* output text, case ignored: the followed edge matches, and no outgoing     *)
(* edge of the node that stands before it in the array does.                 *)
C2_FirstMatchingEdgeFollowed ==
    \A k \in 1..Len(followedEdges) :
        LET e == followedEdges[k] IN
        RunNode(e.sourceId).type = CONDITIONAL_AGENT =>
            /\ HasOutput(e.sourceId)
            /\ runEdges[EdgePosition(e)] = e
            /\ EdgeMatches(e, OutputOf(e.sourceId))
            /\ \A j \in OutgoingPositions(e.sourceId) :
                   j < EdgePosition(e) =>
                       ~EdgeMatches(runEdges[j], OutputOf(e.sourceId))

(* A conditional node with two matching edges, the later one created        *)
(* leading elsewhere, has had its earlier one followed.                      *)
C2_Witness ==
    \E k \in 1..Len(followedEdges) :
        LET e == followedEdges[k] IN
        /\ RunNode(e.sourceId).type = CONDITIONAL_AGENT
        /\ \E j \in OutgoingPositions(e.sourceId) :
               /\ j > EdgePosition(e)
               /\ EdgeMatches(runEdges[j], OutputOf(e.sourceId))
               /\ runEdges[j].targetId # e.targetId

-----------------------------------------------------------------------------
(* C3: traversal that arrives at a node already visited in this run fails    *)
(* with a cycle error at that node before the node is invoked again: only    *)
(* the last node of the path can be a repeat, the run has then returned with *)
(* the cycle entry for that node as its last entry and the node marked, and  *)
(* no node is visited or invoked more than once.                             *)
C3_CycleHaltsBeforeSecondInvocation ==
    /\ NoDuplicates(visitedNodes)
    /\ \A id \in {path[k] : k \in 1..Len(path)} : TimesInvoked(id) <= 1
    /\ \A k \in 1..Len(path) :
          (\E j \in 1..(k - 1) : path[j] = path[k]) =>
              /\ k = Len(path)
              /\ Returned
              /\ Last(processingLog) = LogEntry(MsgCycle(path[k]), "error", path[k])
              /\ path[k] \in nodeErrors
              /\ finalOutput = Null

(* START -> A -> B -> A: A and B were each invoked once, the run failed at A. *)
C3_Witness ==
    /\ Len(path) = 4
    /\ path[4] = path[2]
    /\ path[3] # path[2]
    /\ Len(invocations) = 2
    /\ Returned

-----------------------------------------------------------------------------
(* C4: when processAgentTask rejects for a node, the run has returned with   *)
(* one error entry, the last of the log, for that node and carrying the      *)
(* rejection's message; the node is the one marked in nodeErrors; no edge    *)
(* leaving it is followed, it is the last node visited, the rejected call is *)
(* the last call made and the only call for that node.                       *)
C4_RejectionHaltsAtNode ==
    \A k \in 1..Len(responses) :
        ~responses[k].ok =>
            LET id == invocations[k].nodeId IN
            /\ Returned
            /\ k = Len(invocations)
            /\ ErrorEntries = 1
            /\ Last(processingLog).status = "error"
            /\ Last(processingLog).nodeId = id
            /\ Includes(Last(processingLog).message, responses[k].text)
            /\ nodeErrors = {id}
            /\ Last(visitedNodes) = id
            /\ Last(path) = id
            /\ \A j \in 1..Len(followedEdges) : followedEdges[j].sourceId # id
            /\ TimesInvoked(id) = 1
            /\ finalOutput = Null

(* The second agent on the path rejected. *)
C4_Witness ==
    /\ Len(responses) = 2
    /\ ~responses[2].ok
    /\ \E j \in OutgoingPositions(invocations[2].nodeId) :
           IsRunNodeId(runEdges[j].targetId)

-----------------------------------------------------------------------------
(* C5: if the output of a CONDITIONAL_AGENT node contains none of the        *)
(* non-empty keywords of its outgoing edges, the run has returned with the   *)
(* no-matching-branch error for that node as its last entry and the node     *)
(* marked, and no edge leaving the node has been followed.                   *)
C5_NoMatchingBranchFails ==
    \A k \in 1..Len(responses) :
        LET id == invocations[k].nodeId IN
        (/\ responses[k].ok
         /\ RunNode(id).type = CONDITIONAL_AGENT
         /\ \A j \in OutgoingPositions(id) : ~EdgeMatches(runEdges[j], responses[k].text))
        =>  /\ Returned
            /\ k = Len(invocations)
            /\ Last(processingLog) = LogEntry(MsgNoMatch, "error", id)
            /\ ErrorEntries = 1
            /\ nodeErrors = {id}
            /\ Last(path) = id
            /\ \A j \in 1..Len(followedEdges) : followedEdges[j].sourceId # id
            /\ finalOutput = Null

(* A conditional node with an edge of empty keyword and an edge whose        *)
(* keyword the output lacks. *)
C5_Witness ==
    \E k \in 1..Len(responses) :
        LET id == invocations[k].nodeId IN
        /\ responses[k].ok
        /\ RunNode(id).type = CONDITIONAL_AGENT
        /\ \A j \in OutgoingPositions(id) : ~EdgeMatches(runEdges[j], responses[k].text)
        /\ \E j \in OutgoingPositions(id) : runEdges[j].conditionKeyword = <<>>
        /\ \E j \in OutgoingPositions(id) : runEdges[j].conditionKeyword # <<>>

-----------------------------------------------------------------------------
(* C6: a START or plain AGENT node reached by the run that has no outgoing   *)
(* edge makes the run fail with the dead-end error at that node; for an      *)
(* AGENT node whose invocation succeeded the error comes right after the     *)
(* node's output entry, the node having been invoked once.                   *)
C6_DeadEndFails ==
    \A k \in 1..Len(visitedNodes) :
        LET id == visitedNodes[k]
            n == RunNode(id)
            deadEnd == LogEntry(MsgNoOutgoing(n.description), "error", id)
        IN  OutgoingPositions(id) = {} =>
            /\ n.type = START =>
                  /\ Returned
                  /\ Last(processingLog) = deadEnd
                  /\ nodeErrors = {id}
            /\ (n.type = AGENT /\ HasOutput(id)) =>
                  /\ Returned
                  /\ Last(processingLog) = deadEnd
                  /\ Len(processingLog) >= 2
                  /\ processingLog[Len(processingLog) - 1].nodeId = id
                  /\ IsNodeOutputEntry(processingLog[Len(processingLog) - 1])
                  /\ nodeErrors = {id}
                  /\ TimesInvoked(id) = 1
            /\ (n.type = AGENT /\ ~HasOutput(id)) =>
                  TimesInvoked(id) = 1 /\ Last(invocations).nodeId = id

(* A plain AGENT without outgoing edge was invoked, resolved, and the run    *)
(* failed there. *)
C6_Witness ==
    /\ Returned
    /\ visitedNodes # <<>>
    /\ RunNode(Last(visitedNodes)).type = AGENT
    /\ OutgoingPositions(Last(visitedNodes)) = {}
    /\ HasOutput(Last(visitedNodes))

-----------------------------------------------------------------------------
-----------------------------------------------------------------------------
(* C8: every agent invocation is made with the visited node's own role text  *)
(* and search flag and with the current payload: the initial input for the   *)
(* first agent on the path, otherwise the text the preceding invocation      *)
(* resolved with.                                                            *)
C8_InvocationArguments ==
    \A k \in 1..Len(invocations) :
        LET c == invocations[k]
            n == RunNode(c.nodeId)
        IN  /\ \E j \in 1..Len(visitedNodes) : visitedNodes[j] = c.nodeId
            /\ k = Len(invocations) /\ ~AllSettled => c.nodeId = Last(visitedNodes)
            /\ IsAgentType(n.type)
            /\ c.agentDescription = n.description
            /\ c.enableInternetSearch = n.enableInternetSearch
            /\ c.input = IF k = 1 THEN initialQuestion ELSE responses[k - 1].text
            /\ k > 1 => responses[k - 1].ok

C8_Witness ==
    /\ Len(invocations) = 2
    /\ invocations[1].enableInternetSearch # invocations[2].enableInternetSearch
    /\ invocations[2].input # initialQuestion

-----------------------------------------------------------------------------
(* C9 and C10 speak of the graph and the question the run was given. *)

StartCount == Cardinality({k \in 1..Len(nodes) : nodes[k].type = START})

BlankQuestion == \A k \in 1..Len(initialQuestion) : initialQuestion[k] = " "

NothingVisited ==
    visitedNodes = <<>> /\ path = <<>> /\ invocations = <<>> /\ followedEdges = <<>>

-----------------------------------------------------------------------------
(* C10: a run whose initial input is empty or only whitespace fails with the *)
(* empty-input error, the only entry it emits, with no node visited and no   *)
(* invocation made.                                                          *)
C10_BlankQuestionFails ==
    BlankQuestion =>
        /\ NothingVisited
        /\ pc # "awaiting"
        /\ Returned =>
              /\ processingLog = <<LogEntry(MsgEmptyQuestion, "error", NoNode)>>
              /\ finalOutput = Null
              /\ nodeErrors = {}
              /\ ~isProcessing
              /\ currentProcessingNodeId = NoNode

(* A whitespace-only question on a graph whose START leads to an agent. *)
C10_Witness ==
    /\ Returned
    /\ initialQuestion = <<" ">>
    /\ \E j, k \in 1..Len(nodes), e \in 1..Len(edges) :
           /\ nodes[j].type = START
           /\ nodes[k].type = AGENT
           /\ edges[e].sourceId = nodes[j].id
           /\ edges[e].targetId = nodes[k].id

-----------------------------------------------------------------------------
(* C11: if the edge chosen at a node has a targetId that is the id of no     *)
(* node of the run's graph, the run has returned with the corrupt-graph      *)
(* error, its only error entry and the last of the log, attributed to the    *)
(* node the edge leaves; that node is the one marked, it is the last node    *)
(* visited and the last of the path, and no edge is followed and no call     *)
(* made after it.                                                            *)
C11_DanglingTargetFails ==
    \A k \in 1..Len(followedEdges) :
        LET e == followedEdges[k] IN
        ~IsRunNodeId(e.targetId) =>
            /\ k = Len(followedEdges)
            /\ Returned
            /\ Last(processingLog) = LogEntry(MsgTargetNotFound, "error", e.sourceId)
            /\ ErrorEntries = 1
            /\ nodeErrors = {e.sourceId}
            /\ Last(path) = e.sourceId
            /\ Last(visitedNodes) = e.sourceId
            /\ Len(path) = Len(visitedNodes)
            /\ AllSettled
            /\ finalOutput = Null

(* The edge chosen at an agent that resolved leads to no node, another edge *)
(* having been followed before it.                                           *)
C11_Witness ==
    /\ Len(followedEdges) = 2
    /\ ~IsRunNodeId(followedEdges[2].targetId)
    /\ IsAgentType(RunNode(followedEdges[2].sourceId).type)

-----------------------------------------------------------------------------
(* C13: every failure that occurs once traversal has started halts the run   *)
(* at once and identifies the failing node: an error entry of a run that     *)
(* found its START node is the last entry of the log and carries the id of   *)
(* the node where traversal stopped, exactly that node is marked in          *)
(* nodeErrors, the handler has returned and no call is pending or made       *)
(* after it.                                                                 *)
C13_FailureHaltsAtNode ==
    \A k \in 1..Len(processingLog) :
        (IsErrorEntry(processingLog[k]) /\ path # <<>>) =>
            /\ k = Len(processingLog)
            /\ Returned
            /\ processingLog[k].nodeId = Last(path)
            /\ nodeErrors = {Last(path)}
            /\ AllSettled
            /\ Len(invocations) <= Len(visitedNodes)
            /\ finalOutput = Null

(* A failure at a node that is not the node visited last: the cycle closed  *)
(* on an earlier node of the path.                                           *)
C13_Witness ==
    /\ Returned
    /\ ErrorEntries = 1
    /\ Len(path) >= 3
    /\ Last(path) # Last(visitedNodes)
    /\ invocations # <<>>

-----------------------------------------------------------------------------
(* C16: for every AGENT or CONDITIONAL_AGENT node visited, a log entry of    *)
(* status 'processing' for that node is emitted before the invocation is     *)
(* issued: every call made has such an entry for its node in the log, and    *)
(* the entry stands before any 'success' or 'error' entry of that node.      *)
C16_ProcessingEntryBeforeInvocation ==
    \A k \in 1..Len(invocations) :
        \E j \in 1..Len(processingLog) :
            /\ processingLog[j].status = "processing"
            /\ processingLog[j].nodeId = invocations[k].nodeId
            /\ \A m \in 1..Len(processingLog) :
                   (/\ processingLog[m].nodeId = invocations[k].nodeId
                    /\ processingLog[m].status \in {"success", "error"}) => j < m

-----------------------------------------------------------------------------
(* C17: a run never changes the graph it executes: no step of                *)
(* handleProcessFlow changes the nodes array's length or order, a node's id, *)
(* type, description or search flag, or the edges array.                     *)

GraphNode(n) ==
    [id |-> n.id, type |-> n.type, description |-> n.description,
     enableInternetSearch |-> n.enableInternetSearch]

GraphNodes(ns) == [k \in 1..Len(ns) |-> GraphNode(ns[k])]

C17_RunKeepsGraph ==
    [][GraphNodes(nodes') = GraphNodes(nodes) /\ edges' = edges]_vars

(* A completed run that has written an agent's input and output into its    *)
(* node.                                                                     *)
C17_Witness ==
    /\ Returned
    /\ finalOutput # Null
    /\ \E k \in 1..Len(nodes) :
           /\ IsAgentType(nodes[k].type)
           /\ nodes[k].output # Null
           /\ nodes[k].output # Some(<<>>)
           /\ nodes[k].enableInternetSearch = Some(TRUE)

-----------------------------------------------------------------------------
(* C14 and C15 compare a call of the handler with the call before it, made   *)
(* on the same graph and question and answered the same way node by node.    *)

IsPrefix(a, b) == Len(a) <= Len(b) /\ SubSeq(b, 1, Len(a)) = a

FailedBefore ==
    /\ previousRun # Null
    /\ \E k \in 1..Len(previousRun[1].emitted) :
           IsErrorEntry(previousRun[1].emitted[k])

(* C14: for a fixed graph, a fixed question and fixed responses per node,    *)
(* two runs visit the same sequence of nodes, emit the same sequence of log  *)
(* entries (status, node id, message) and end with the same final output or  *)
(* the same failure: the second run goes along the first at every step, and  *)
(* when it has returned it has the first run's path, entries, calls,         *)
(* responses, final output and marked node.                                  *)
C14_RunsAreDeterministic ==
    previousRun # Null =>
        /\ IsPrefix(path, previousRun[1].path)
        /\ IsPrefix(visitedNodes, previousRun[1].visitedNodes)
        /\ IsPrefix(emitted, previousRun[1].emitted)
        /\ IsPrefix(invocations, previousRun[1].invocations)
        /\ IsPrefix(responses, previousRun[1].responses)
        /\ Returned =>
              /\ path = previousRun[1].path
              /\ visitedNodes = previousRun[1].visitedNodes
              /\ followedEdges = previousRun[1].followedEdges
              /\ emitted = previousRun[1].emitted
              /\ invocations = previousRun[1].invocations
              /\ responses = previousRun[1].responses
              /\ finalOutput = previousRun[1].finalOutput
              /\ nodeErrors = previousRun[1].nodeErrors

(* A second run that took a conditional branch and completed. *)
C14_Witness ==
    /\ previousRun # Null
    /\ Returned
    /\ finalOutput # Null
    /\ \E k \in 1..Len(followedEdges) : followedEdges[k].conditionKeyword # <<>>

(* C15: starting a run resets all run state, so re-running on the same graph *)
(* and question with the same responses after a failed run yields the same   *)
(* failure at the same node with the same log: when the second call has      *)
(* returned, the log, the marked nodes, the final output, the current-node   *)
(* pointer and every node's output and last input are those the first call   *)
(* left.                                                                     *)
C15_RerunAfterFailureRepeatsIt ==
    (FailedBefore /\ Returned) =>
        /\ processingLog = previousRun[1].processingLog
        /\ nodeErrors = previousRun[1].nodeErrors
        /\ finalOutput = previousRun[1].finalOutput
        /\ currentProcessingNodeId = previousRun[1].currentProcessingNodeId
        /\ nodes = previousRun[1].nodes

-----------------------------------------------------------------------------
(* C18: at most one agent invocation is in flight at any moment: a call is   *)
(* pending exactly while the handler stands at its await, a call after the   *)
(* first is made only when the call before it has resolved, and while a      *)
(* call is pending isProcessing is true and Start Flow is disabled, so no    *)
(* second run can be started.                                                *)

InFlight == Len(invocations) - Len(responses)

C18_OneInvocationInFlight ==
    /\ InFlight \in {0, 1}
    /\ InFlight = 1 <=> pc = "awaiting"
    /\ pc = "awaiting" => isProcessing /\ StartFlowDisabled
    /\ isProcessing => pc = "awaiting"
    /\ \A k \in 2..Len(invocations) :
           k - 1 <= Len(responses) /\ responses[k - 1].ok

(* The second call of a second run is pending. *)
C18_Witness ==
    /\ pc = "awaiting"
    /\ runs = 2
    /\ Len(invocations) = 2
    /\ initialQuestion # <<>>

-----------------------------------------------------------------------------
(* C19: provided every invocation eventually resolves or rejects, every      *)
(* started run eventually reaches its terminal outcome, after which          *)
(* isProcessing is false and currentProcessingNodeId is null, on every exit  *)
(* path.                                                                     *)
C19_StartedRunTerminates ==
    [](pc # "idle" =>
          <>(Returned /\ ~isProcessing /\ currentProcessingNodeId = NoNode))

(* A run that was suspended on a call and, the call having resolved, went   *)
(* on to its failure.                                                        *)
C19_Witness ==
    /\ Returned
    /\ Len(responses) = 1
    /\ responses[1].ok
    /\ ErrorEntries = 1
    /\ ~isProcessing
    /\ currentProcessingNodeId = NoNode

-----------------------------------------------------------------------------
(* C20 speaks of the graph the run started on, while the editor changes the  *)
(* graph on screen.                                                          *)

(* The positions, in the edges the run started on, of the edges the run can  *)
(* take on leaving a node: every outgoing edge, and for a conditional node   *)
(* the outgoing edges that match its output.                                 *)
EdgesToTake(id) ==
    IF RunNode(id).type = CONDITIONAL_AGENT
    THEN {j \in OutgoingPositions(id) : EdgeMatches(runEdges[j], OutputOf(id))}
    ELSE OutgoingPositions(id)

Lowest(S) == CHOOSE x \in S : \A y \in S : x <= y

(* The run has finished with the node at position k of its path: a START     *)
(* node, or an agent whose call resolved, met for the first time.            *)
LeftAt(k) ==
    /\ \A j \in 1..(k - 1) : path[j] # path[k]
    /\ \/ RunNode(path[k]).type = START
       \/ IsAgentType(RunNode(path[k]).type) /\ HasOutput(path[k])

(* Every step of the run is the one the graph of its start dictates. *)
RunFollowsStartGraph ==
    /\ \A k \in 1..Len(path) :
          /\ IsRunNodeId(path[k])
          /\ LeftAt(k) =>
                IF EdgesToTake(path[k]) = {}
                THEN Len(path) = k /\ Len(followedEdges) = k - 1
                ELSE LET e == runEdges[Lowest(EdgesToTake(path[k]))] IN
                     /\ Len(followedEdges) >= k
                     /\ followedEdges[k] = e
                     /\ IF IsRunNodeId(e.targetId)
                        THEN Len(path) > k /\ path[k + 1] = e.targetId
                        ELSE Len(path) = k
    /\ \A k \in 1..Len(invocations) :
          LET c == invocations[k] IN
          /\ IsRunNodeId(c.nodeId)
          /\ c.agentDescription = RunNode(c.nodeId).description
          /\ c.enableInternetSearch = RunNode(c.nodeId).enableInternetSearch

(* C20: a run traverses the graph as it was when the run started.  The call  *)
(* of the handler takes the nodes and edges of that moment, keeps them       *)
(* whatever the editor does to the graph on screen while a call is pending   *)
(* (nodes or edges added or deleted, keywords, role texts or search flags    *)
(* changed), and every edge followed, every node visited and the role and    *)
(* flag of every invocation are the ones that graph dictates.                *)
C20_RunTraversesStartGraph ==
    [][/\ pc = "idle" /\ path' # <<>> =>
              /\ GraphNodes(runNodes') = GraphNodes(nodes)
              /\ runEdges' = edges
       /\ pc # "idle" => runNodes' = runNodes /\ runEdges' = runEdges
       /\ RunFollowsStartGraph']_vars

(* The run reached END over an edge, taken after a call had resolved, that   *)
(* the editor had deleted while the call was pending.                        *)
C20_Witness ==
    /\ Returned
    /\ finalOutput # Null
    /\ edits > 0
    /\ \E k \in 2..Len(followedEdges) :
          \A j \in 1..Len(edges) : edges[j].id # followedEdges[k].id

-----------------------------------------------------------------------------
(* C21 speaks of START and plain AGENT nodes with several outgoing edges.    *)

IsSingleExit(type) == type = START \/ type = AGENT

-----------------------------------------------------------------------------
(* C22 speaks of followed edges that lead into a START node or leave an END  *)
(* node.                                                                     *)

LeadsIntoStart(e) == IsRunNodeId(e.targetId) /\ RunNode(e.targetId).type = START

-----------------------------------------------------------------------------
(* C25 counts the node-output entries of the log against the calls made.     *)

NodeOutputEntries ==
    {k \in 1..Len(processingLog) : IsNodeOutputEntry(processingLog[k])}

ResolvedCalls == {k \in 1..Len(responses) : responses[k].ok}

AgentsOnPath == {k \in 1..Len(path) : IsAgentType(RunNode(path[k]).type)}

(* C25: in every run the number of node-output entries equals the number of  *)
(* invocations that resolved; every such entry belongs to an agent node on   *)
(* the path and no node has two of them; only agent nodes are invoked, never *)
(* a START or END node; and a completed run whose path holds k agent nodes   *)
(* has exactly k node-output entries and made exactly k invocations.         *)
C25_OneOutputEntryPerResolvedCall ==
    /\ Cardinality(NodeOutputEntries) = Cardinality(ResolvedCalls)
    /\ \A k \in NodeOutputEntries :
          /\ \E j \in AgentsOnPath : path[j] = processingLog[k].nodeId
          /\ \A j \in NodeOutputEntries :
                 processingLog[j].nodeId = processingLog[k].nodeId => j = k
    /\ \A k \in 1..Len(invocations) :
          IsAgentType(RunNode(invocations[k].nodeId).type)
    /\ (Returned /\ finalOutput # Null) =>
          /\ Cardinality(NodeOutputEntries) = Cardinality(AgentsOnPath)
          /\ Len(invocations) = Cardinality(AgentsOnPath)

(* A run through START, one agent and END has completed with one invocation  *)
(* and one node-output entry.                                                *)
C25_Witness ==
    /\ Returned
    /\ finalOutput # Null
    /\ Len(path) = 3
    /\ Cardinality(AgentsOnPath) = 1
    /\ Cardinality(NodeOutputEntries) = 1
    /\ Len(invocations) = 1

-----------------------------------------------------------------------------
(* C29: on a graph whose node ids are unique the loop exits through END or   *)
(* through an error within nodeCount + 1 iterations: an iteration is begun   *)
(* for every node of the path, every iteration but the last has added a new  *)
(* id to visitedNodes, so the path is at most one longer than the node       *)
(* array; the loop counter never reaches nodeCount + LoopSlack, and a run    *)
(* that entered the loop and returned ended with the END entry or with an    *)
(* error entry.                                                              *)
C29_LoopExitsWithinNodeCountPlusOne ==
    path # <<>> =>
        /\ NoDuplicates([k \in 1..Len(runNodes) |-> runNodes[k].id])
        /\ i = Len(path) - 1
        /\ Len(path) <= Len(runNodes) + 1
        /\ NoDuplicates(visitedNodes)
        /\ Len(visitedNodes) >= Len(path) - 1
        /\ Len(visitedNodes) <= Len(runNodes)
        /\ i < Len(runNodes) + LoopSlack
        /\ Returned =>
              \/ /\ IsCompletedEntry(Last(processingLog))
                 /\ finalOutput # Null
                 /\ RunNode(Last(path)).type = END
              \/ /\ IsErrorEntry(Last(processingLog))
                 /\ finalOutput = Null

(* A run has gone round a cycle through every node of the graph and stopped  *)
(* in iteration nodeCount + 1.                                               *)
C29_Witness ==
    /\ Returned
    /\ Len(runNodes) = MaxNodes
    /\ Len(path) = Len(runNodes) + 1
    /\ Len(visitedNodes) = Len(runNodes)
    /\ Last(processingLog) = LogEntry(MsgCycle(Last(path)), "error", Last(path))

-----------------------------------------------------------------------------
(* C26 to C28 and C30 speak of the graph on screen after any sequence of     *)
(* operations of the user.                                                   *)

OutgoingNow(es, id) == {k \in 1..Len(es) : es[k].sourceId = id}

EdgeIds(es) == {es[k].id : k \in 1..Len(es)}

(* C26: every START node and every plain AGENT node has at most one outgoing *)
(* edge, and no step adds an edge at such a node that already has one: a     *)
(* connection from it is rejected.                                           *)
C26_SingleExitNodesKeepOneEdge ==
    [][\A k \in 1..Len(nodes') :
           IsSingleExit(nodes'[k].type) =>
               /\ Cardinality(OutgoingNow(edges', nodes'[k].id)) <= 1
               /\ OutgoingNow(edges, nodes'[k].id) # {} =>
                      {edges'[j].id : j \in OutgoingNow(edges', nodes'[k].id)}
                          \subseteq EdgeIds(edges)]_vars

(* A second connection from a plain AGENT node has been rejected: the log    *)
(* ends with the refusal and the node still has its one edge.                *)
C26_Witness ==
    /\ processingLog # <<>>
    /\ Last(processingLog) = LogEntry(MsgOneOutgoing(AGENT), "error", NoNode)
    /\ connectingFromNodeId = NoNode
    /\ \E k \in 1..Len(nodes) :
          /\ nodes[k].type = AGENT
          /\ Cardinality(OutgoingNow(edges, nodes[k].id)) = 1

-----------------------------------------------------------------------------
(* C27: the sourceId and the targetId of every edge are ids of nodes of the  *)
(* graph, whatever was deleted; and a click that completes a connection      *)
(* started from a node deleted since creates no edge.                        *)
C27_EdgesReferenceNodes ==
    [][/\ \A k \in 1..Len(edges') :
             /\ NodeById(nodes', edges'[k].sourceId) # Null
             /\ NodeById(nodes', edges'[k].targetId) # Null
       /\ (/\ connectingFromNodeId # NoNode
           /\ NodeById(nodes, connectingFromNodeId) = Null) =>
              EdgeIds(edges') \subseteq EdgeIds(edges)]_vars

(* An agent was added and connected to END, a connection was started from it *)
(* again, it was deleted, taking its edge with it, and the click on a target *)
(* was refused.                                                              *)
C27_Witness ==
    /\ Len(nodes) = 2
    /\ edges = <<>>
    /\ nextId = 5
    /\ connectingFromNodeId = NoNode
    /\ processingLog =
          <<LogEntry(MsgConnected(AGENT, END), "info", NoNode),
            LogEntry(MsgInvalidConnection, "error", NoNode)>>

-----------------------------------------------------------------------------
(* C28: no edge has an END node as its source, none has a START node as its  *)
(* target, and none has the same node as source and target.                  *)
C28_NoInvalidEdge ==
    \A k \in 1..Len(edges) :
        /\ edges[k].sourceId # edges[k].targetId
        /\ \A j \in 1..Len(nodes) :
              /\ nodes[j].id = edges[k].sourceId => nodes[j].type # END
              /\ nodes[j].id = edges[k].targetId => nodes[j].type # START

(* A connection from the one agent ever added to the START node has been     *)
(* refused and has left no edge.                                             *)
C28_Witness ==
    /\ Len(nodes) = 3
    /\ nextId = 4
    /\ edges = <<>>
    /\ connectingFromNodeId = NoNode
    /\ processingLog = <<LogEntry(MsgInvalidConnection, "error", NoNode)>>

-----------------------------------------------------------------------------
(* C30: the graph on screen holds exactly one START node and exactly one END *)
(* node.                                                                     *)
C30_OneStartOneEnd ==
    /\ Cardinality({k \in 1..Len(nodes) : nodes[k].type = START}) = 1
    /\ Cardinality({k \in 1..Len(nodes) : nodes[k].type = END}) = 1

(* The flow has been cleared, which made a new START and a new END node,    *)
(* and an agent has been added since: three nodes, one START and one END.    *)
C30_Witness ==
    /\ nodes[1].id > 2
    /\ Len(nodes) = 3
    /\ nodes[1].type = START
    /\ nodes[2].type = END
    /\ IsAgentType(nodes[3].type)

-----------------------------------------------------------------------------
(* C23 and C24 speak of the log and the result of a run next to the entries  *)
(* the editor writes.                                                        *)

NodeTypes == {START, AGENT, CONDITIONAL_AGENT, END}

(* An entry handleNodeClick writes on a connection attempt. *)
IsConnectionEntry(e) ==
    \/ e = LogEntry(MsgInvalidConnection, "error", NoNode)
    \/ \E type \in NodeTypes : e = LogEntry(MsgOneOutgoing(type), "error", NoNode)
    \/ \E sourceType, targetType \in NodeTypes :
          e = LogEntry(MsgConnected(sourceType, targetType), "info", NoNode)

(* A step taken after a call of the handler has returned that neither starts *)
(* a new run nor clears the flow.                                            *)
StepAfterRun == pc = "returned" /\ pc' = "returned" /\ runs' = runs

(* C23, as claimed: once a run has produced its terminal outcome, its        *)
(* finalOutput, its nodeErrors and its log are not changed by anything until *)
(* a new run is started or the flow is cleared.                              *)
C23_Original_ResultUnchanged ==
    [][StepAfterRun =>
           /\ finalOutput' = finalOutput
           /\ nodeErrors' = nodeErrors
           /\ processingLog' = processingLog]_vars

(* C23, amended: until a new run is started or the flow is cleared,          *)
(* finalOutput and nodeErrors are not changed, and the log is changed only   *)
(* by a click on a node that ends a connection attempt, which appends one    *)
(* entry (connected, refused or invalid) after the entries of the run.       *)
C23_ResultKeptLogExtended ==
    [][StepAfterRun =>
           /\ finalOutput' = finalOutput
           /\ nodeErrors' = nodeErrors
           /\ \/ processingLog' = processingLog
              \/ /\ connectingFromNodeId # NoNode
                 /\ connectingFromNodeId' = NoNode
                 /\ Len(processingLog') = Len(processingLog) + 1
                 /\ IsPrefix(processingLog, processingLog')
                 /\ IsConnectionEntry(Last(processingLog'))]_vars

(* A run has completed at END, and a connection attempt made afterwards has  *)
(* put an error entry behind the run's END entry.                            *)
C23_Witness ==
    /\ Returned
    /\ finalOutput # Null
    /\ Len(processingLog) >= 2
    /\ IsCompletedEntry(processingLog[Len(processingLog) - 1])
    /\ Last(processingLog) = LogEntry(MsgOneOutgoing(START), "error", NoNode)

-----------------------------------------------------------------------------
(* C24: from the start of a run until its terminal outcome the log only      *)
(* grows by appending.  The call of the handler that starts a run on a       *)
(* question that is not blank leaves as the log exactly the entries it has   *)
(* written; from then on, while the call is pending, every step (the handler *)
(* going on, or an editor operation that logs) leaves the log it found as a  *)
(* prefix of the log it leaves: no entry is removed, reordered or rewritten. *)
C24_LogOnlyGrows ==
    [][/\ (/\ pc' # "idle"
           /\ pc = "idle" \/ runs' # runs
           /\ ~QuestionIsBlank(initialQuestion)) =>
              processingLog' = emitted'
       /\ pc = "awaiting" => IsPrefix(processingLog, processingLog')]_vars

(* A run has returned whose log holds, between the run's first and last      *)
(* entries, one entry of a connection attempt made while a call was pending. *)
C24_Witness ==
    /\ Returned
    /\ Len(emitted) >= 3
    /\ Len(processingLog) = Len(emitted) + 1
    /\ processingLog[1] = emitted[1]
    /\ Last(processingLog) = Last(emitted)
    /\ \E k \in 2..(Len(processingLog) - 1) :
          IsConnectionEntry(processingLog[k])

====
